---- MODULE Spec2Model ----
(***************************************************************************)
(* Model of bearaujus/bhttp: the attempt loop bHTTP.exec and the           *)
(* single-attempt executor do (src/bhttp.go), with Options / RetryConfig   *)
(* (src/options.go).  One call at a time is followed from the public call  *)
(* shape through validation, option normalisation, the try loop, the       *)
(* rate-limiter wait, the send, the body read and the classification.      *)
(***************************************************************************)
EXTENDS Integers, Sequences, FiniteSets, TLC

\* ------------------------------------------------------------------ bounds
\* Width of Go's int in the model (64 in the build); arithmetic wraps.
IntBits == 4
\* Largest retry budget below MaxInt that a call is made with.
MaxAttempts == 2
\* Length of a series of calls with identical inputs.
MaxCalls == 3

MaxInt == 2^(IntBits - 1) - 1
MinInt == 0 - 2^(IntBits - 1)

\* Two's-complement wrap-around of Go's signed int arithmetic.
Wrap(n) == ((n + 2^(IntBits - 1)) % (2^IntBits)) - 2^(IntBits - 1)

\* ------------------------------------------------------------ value sets
StatusOK == 200
Status == {200, 201, 503}
CodeSets == {{}, {200}, {503}, {201, 503}}

\* Response bodies: empty, not JSON, a JSON object, a JSON array.
Bodies == {"", "oops", "{\"a\":1}", "[1]"}

AttemptsValues == {MinInt, -1, 0, 1, MaxAttempts, MaxInt}

NilOpts == [nil |-> TRUE]
NilRetry == [nil |-> TRUE]
RetryConfig == [Attempts : AttemptsValues, RetryStatusCodes : CodeSets]
Options == [ExpectedStatusCodes : CodeSets,
            Retry : {NilRetry} \cup RetryConfig,
            RateLimiter : BOOLEAN]

\* new(Options) and new(RetryConfig): Go zero values.
NewOptions == [ExpectedStatusCodes |-> {}, Retry |-> NilRetry, RateLimiter |-> FALSE]
NewRetryConfig == [Attempts |-> 0, RetryStatusCodes |-> {}]

\* The four public call shapes and the (dest, validateDest, opts) each hands
\* to exec.
Shapes == {"Do", "DoWithOptions", "DoAndUnwrap", "DoAndUnwrapWithOptions"}
ShapeValidates(s) == s \in {"DoAndUnwrap", "DoAndUnwrapWithOptions"}
ShapeTakesOpts(s) == s \in {"DoWithOptions", "DoAndUnwrapWithOptions"}
\* dest as an interface value: absent (nil interface), a non-pointer value,
\* a typed nil pointer, a non-nil pointer to a struct.
DestKinds == {"absent", "nonptr", "nilptr", "ptr"}
ZeroValue == [a |-> 0]

\* ---------------------------------------------------------------- errors
NoErr == [kind |-> "nil"]
InvalidDestination == [kind |-> "InvalidDestination"]
InvalidState(m) == [kind |-> "InvalidState", msg |-> m]
RateLimitWaitFailed(c) == [kind |-> "RateLimitWaitFailed", cause |-> c]
TransportError == [kind |-> "TransportError"]
BodyReadError == [kind |-> "BodyReadError"]
UnexpectedStatus(s, exp, b) ==
    [kind |-> "UnexpectedStatus", status |-> s, expected |-> exp, body |-> b]
DecodeError(c, b) == [kind |-> "DecodeError", cause |-> c, body |-> b]
RetriesExhausted(n, c) == [kind |-> "RetriesExhausted", attempts |-> n, cause |-> c]

\* ------------------------------------------------------------ JSON codec
\* json.Unmarshal(body, &raw) succeeds.
IsJSON(b) == b \in {"{\"a\":1}", "[1]"}
\* json.MarshalIndent(raw, "", "\t")
MarshalIndent(b) ==
    CASE b = "{\"a\":1}" -> "{\n\t\"a\": 1\n}"
      [] b = "[1]"       -> "[\n\t1\n]"
      [] OTHER           -> b
\* Variant of DiagBody that keeps the raw text always.
DiagBody_Raw(b) == b
\* errRespBody: pretty-printed when the body parses, the raw text otherwise.
DiagBody(b) == IF IsJSON(b) THEN MarshalIndent(b) ELSE b
\* Variant of UnmarshalErr that accepts any JSON value for the struct.
UnmarshalErr_AnyJSON(b) ==
    IF IsJSON(b) THEN NoErr ELSE [kind |-> "SyntaxError", msg |-> "invalid character"]
\* json.Unmarshal(body, dest) into a pointer to struct{A int}: the error, or
\* NoErr.
UnmarshalErr(b) ==
    CASE b = "{\"a\":1}" -> NoErr
      [] b = "[1]"       -> [kind |-> "UnmarshalTypeError"]
      [] b = ""          -> [kind |-> "SyntaxError", msg |-> "unexpected end of JSON input"]
      [] OTHER           -> [kind |-> "SyntaxError", msg |-> "invalid character"]
Unmarshal(b, old) == IF b = "{\"a\":1}" THEN [a |-> 1] ELSE old

\* ----------------------------------------------------------------- state
VARIABLES
    client,       \* bHTTP.client: "nil", "default" or "custom"
    built,        \* how the instance was built, and from which argument
    pc,           \* position of the call
    shape,        \* public call shape of the call in progress
    req,          \* "nil" or "req"
    reqBody,      \* req.Body: "none", "unread" or "consumed"
    given,        \* the requests handed to httpClient.Do, one per send
    ctx,          \* req.Context(): "live" or "cancelled"
    ctxAtCall,    \* state of the context when the call was made
    dest,         \* kind of the dest interface value
    destVal,      \* value dest points to
    validateDest, \* exec's validateDest argument
    optsArg,      \* the caller's options value at the call: NilOpts or Options
    opts,         \* the Options value exec's opts points to
    totalTries,   \* exec's totalTries
    try,          \* exec's loop variable
    retryCodes,   \* retry-code set handed to do on the current try
    resp,         \* response of the current try
    body,         \* body bytes read by io.ReadAll
    shouldRetry,  \* do's first result on the last completed try
    doErr,        \* do's second result on the last completed try
    err,          \* exec's result
    tries,        \* number of do invocations of the call
    sends,        \* number of httpClient.Do invocations of the call
    waitCalls,    \* number of rateLimiter.Wait invocations of the call
    waits,        \* number of successful rateLimiter.Wait of the call
    hist,         \* statuses of the responses received, in order
    handed,       \* retry-code sets handed to do, one per try
    \* successive calls with identical inputs
    server,       \* body a deterministic always-200 server answers with
    prev,         \* outcome of the previous call of the series
    calls,        \* number of calls of the series made so far
    \* concurrent calls sharing one options value
    shared,       \* the Options value the concurrent calls point to
    gpc,          \* position of each concurrent call in exec
    gTotalTries,  \* totalTries of each concurrent call
    gTry          \* try of each concurrent call

\* Variables of a series of identical calls, and of concurrent calls.
idem == <<server, prev, calls>>
conc == <<shared, gpc, gTotalTries, gTry>>

vars == <<client, built, pc, shape, req, reqBody, given, ctx, ctxAtCall, dest, destVal,
          validateDest, optsArg, opts, totalTries, try, retryCodes, resp,
          body, shouldRetry, doErr, err, tries, sends, waitCalls, waits,
          hist, handed, idem, conc>>

NoResp == [none |-> TRUE]
NoPrev == [none |-> TRUE]

\* The goroutines that call exec concurrently.
G == {1, 2}

\* http.DefaultClient and a caller-supplied client.
DefaultClient == "default"
Clients == {DefaultClient, "custom"}

\* Variant of NewWithClient without the nil guard.
NewWithClient_NoNilGuard(c) == c
\* NewWithClient: a nil client is replaced by http.DefaultClient.
NewWithClient(c) == IF c = "nil" THEN DefaultClient ELSE c
\* New
New == NewWithClient(DefaultClient)
\* bHTTP.Client
Client(held) == held

\* The instance: built by New, by NewWithClient, or as a bHTTP literal inside
\* the package (client left nil).
InitInstance ==
    \/ /\ built = [by |-> "New", arg |-> "none"]
       /\ client = New
    \/ \E c \in Clients \cup {"nil"} :
        /\ built = [by |-> "NewWithClient", arg |-> c]
        /\ client = NewWithClient(c)
    \/ /\ built = [by |-> "literal", arg |-> "none"]
       /\ client = "nil"

\* No call in progress.
InitCall ==
    /\ pc = "idle"
    /\ shape = "Do"
    /\ req = "nil"
    /\ reqBody = "none"
    /\ given = <<>>
    /\ ctx = "live"
    /\ ctxAtCall = "live"
    /\ dest = "absent"
    /\ destVal = ZeroValue
    /\ validateDest = FALSE
    /\ optsArg = NilOpts
    /\ opts = NilOpts
    /\ totalTries = 0
    /\ try = 0
    /\ retryCodes = {}
    /\ resp = NoResp
    /\ body = ""
    /\ shouldRetry = FALSE
    /\ doErr = NoErr
    /\ err = NoErr
    /\ tries = 0
    /\ sends = 0
    /\ waitCalls = 0
    /\ waits = 0
    /\ hist = <<>>
    /\ handed = <<>>

InitIdemOff == server = "" /\ prev = NoPrev /\ calls = 0
InitConcOff ==
    /\ shared = NilOpts
    /\ gpc = [g \in G |-> "off"]
    /\ gTotalTries = [g \in G |-> 0]
    /\ gTry = [g \in G |-> 0]

Init == InitInstance /\ InitCall /\ InitIdemOff /\ InitConcOff

\* ------------------------------------------------------------------ exec
\* Variant of ValidDest that omits the rv.IsNil() test.
ValidDest_NoNilTest(d) == d \in {"ptr", "nilptr"}
\* reflect check of exec: dest must be a non-nil pointer.
ValidDest(d) == d = "ptr"

\* Variant of DestErr that treats the error as exec treats an error of do.
DestErr_Wrapped(v, d, o) ==
    IF v /\ ~ValidDest(d)
    THEN (IF o # NilOpts /\ o.Retry # NilRetry /\ o.Retry.Attempts > 0
          THEN RetriesExhausted(o.Retry.Attempts, InvalidDestination)
          ELSE InvalidDestination)
    ELSE NoErr
\* if validateDest { ... return fmt.Errorf("dest must be a non-nil pointer")
\* }: the error exec returns before it looks at opts, or NoErr.
DestErr(v, d, o) == IF v /\ ~ValidDest(d) THEN InvalidDestination ELSE NoErr

\* opts == nil -> new(Options)
DefaultOpts(o) == IF o = NilOpts THEN NewOptions ELSE o
\* opts.Retry == nil -> new(RetryConfig)
DefaultRetry(o) ==
    IF o.Retry = NilRetry THEN [o EXCEPT !.Retry = NewRetryConfig] ELSE o
\* Variant of ClampAttempts that negates a negative value instead of zeroing it.
ClampAttempts_Negate(o) ==
    IF o.Retry.Attempts < 0
    THEN [o EXCEPT !.Retry.Attempts = Wrap(0 - o.Retry.Attempts)] ELSE o
\* guard negative values
ClampAttempts(o) ==
    IF o.Retry.Attempts < 0 THEN [o EXCEPT !.Retry.Attempts = 0] ELSE o
\* Variant of Normalize that also stores the number of tries in Attempts.
Normalize_StoresTries(o) ==
    LET n == ClampAttempts(DefaultRetry(DefaultOpts(o)))
    IN [n EXCEPT !.Retry.Attempts = IF @ < MaxAttempts THEN @ + 1 ELSE @]
\* The option normalisation of exec, done in place on the caller's value.
Normalize(o) == ClampAttempts(DefaultRetry(DefaultOpts(o)))

\* Variants of TotalTries: the first try not counted; one try too many.
TotalTries_NoFirstTry(o) == Wrap(o.Retry.Attempts)
TotalTries_OneMore(o) == Wrap(2 + o.Retry.Attempts)
\* totalTries := 1 + opts.Retry.Attempts
TotalTries(o) == Wrap(1 + o.Retry.Attempts)

\* Variants of RetryCodesFor: the set is never cleared; it is cleared only
\* after the last try.
RetryCodesFor_NeverCleared(t, total, o) == o.Retry.RetryStatusCodes
RetryCodesFor_ClearedLate(t, total, o) ==
    IF t > total THEN {} ELSE o.Retry.RetryStatusCodes
\* Variant of RetryCodesFor that clears the set one try early.
RetryCodesFor_ClearedEarly(t, total, o) ==
    IF t >= total - 1 THEN {} ELSE o.Retry.RetryStatusCodes
\* last try: disable retry classification
RetryCodesFor(t, total, o) ==
    IF t = total THEN {} ELSE o.Retry.RetryStatusCodes

\* Variant of WrapErr that wraps whatever the retry budget.
WrapErr_Always(o, e) == RetriesExhausted(o.Retry.Attempts, e)
\* exec's handling of an error returned by do.
WrapErr(o, e) ==
    IF o.Retry.Attempts > 0 THEN RetriesExhausted(o.Retry.Attempts, e) ELSE e

\* Variant of ExpectedOrDefault that accepts 200 besides the listed codes.
ExpectedOrDefault_Plus200(exp) == exp \cup {StatusOK}
\* len(expectedStatusCodes) == 0 -> {http.StatusOK}
ExpectedOrDefault(exp) == IF exp = {} THEN {StatusOK} ELSE exp

\* Variant of DoPrecheck without the nil-request test.
DoPrecheck_NoRequestTest(c, r) ==
    IF c = "nil" THEN InvalidState("nil http client") ELSE NoErr
\* The argument checks at the head of do.
DoPrecheck(c, r) ==
    IF c = "nil" THEN InvalidState("nil http client")
    ELSE IF r = "nil" THEN InvalidState("nil request")
    ELSE NoErr

\* Variant of NeedsWait that never waits.
NeedsWait_Never(o) == FALSE
\* rateLimiter != nil && reqCtx != nil (a request's context is never nil)
NeedsWait(o) == o.RateLimiter

\* Variant of ClassifyStatus without the expected-status test.
ClassifyStatus_NoStatusCheck(st, exp, codes) ==
    IF st \in codes THEN "retry" ELSE "ok"
\* Variant of ClassifyStatus that checks the expected set first.
ClassifyStatus_ExpectedFirst(st, exp, codes) ==
    IF st \in exp THEN "ok"
    ELSE IF st \in codes THEN "retry" ELSE "unexpected"
\* The order of the status checks of do: retry set, then expected set.
ClassifyStatus(st, exp, codes) ==
    IF st \in codes THEN "retry"
    ELSE IF st \notin exp THEN "unexpected" ELSE "ok"

\* Variant of WantsDecode that decodes whatever dest is.
WantsDecode_Always(d) == TRUE
\* dest == nil -> (false, nil): the body is decoded only into a dest that
\* was given.
WantsDecode(d) == d # "absent"

\* exec up to the loop, for the arguments of one call: dest validation,
\* option normalisation, totalTries.
ExecWith(s, r, cx, d, o) ==
    /\ shape' = s
    /\ req' = r
    /\ ctx' = cx
    /\ ctxAtCall' = cx
    /\ dest' = d
    /\ validateDest' = ShapeValidates(s)
    /\ optsArg' = o
    /\ IF DestErr(ShapeValidates(s), d, o) # NoErr
       THEN /\ err' = DestErr(ShapeValidates(s), d, o)
            /\ pc' = "done"
            /\ opts' = o
            /\ UNCHANGED <<totalTries, try>>
       ELSE /\ opts' = Normalize(o)
            /\ totalTries' = TotalTries(Normalize(o))
            /\ try' = 1
            /\ pc' = "loop"
            /\ err' = NoErr

\* The arguments the public call shapes can hand to exec.
CallArgs(s, r, cx, d, o) ==
    /\ (~ShapeValidates(s)) => d = "absent"
    /\ (~ShapeTakesOpts(s)) => o = NilOpts
    /\ (r = "nil") => cx = "live"

\* The call entry: a public call shape hands (req, dest, validateDest, opts)
\* to exec, which validates dest, normalises opts and computes totalTries.
\* The request carries no body.
Exec ==
    /\ pc = "idle"
    /\ \E s \in Shapes, r \in {"nil", "req"}, cx \in {"live", "cancelled"},
          d \in DestKinds, o \in {NilOpts} \cup Options :
        /\ CallArgs(s, r, cx, d, o)
        /\ ExecWith(s, r, cx, d, o)
        /\ reqBody' = "none"
    /\ UNCHANGED <<client, built, given, destVal, retryCodes, resp, body,
                   shouldRetry, doErr, tries, sends, waitCalls, waits, hist,
                   handed, idem, conc>>

\* Variant of FailTry in which do reports a retry along with the error.
FailTry_WithRetry(e) ==
    /\ shouldRetry' = TRUE
    /\ doErr' = e
    /\ err' = WrapErr(opts, e)
    /\ pc' = "done"
\* do returned (FALSE, e) with e # nil: exec returns the (wrapped) error.
FailTry(e) ==
    /\ shouldRetry' = FALSE
    /\ doErr' = e
    /\ err' = WrapErr(opts, e)
    /\ pc' = "done"

\* The loop test of exec, the choice of retryCodes and the entry of do up to
\* its rate-limiter wait.
LoopTest ==
    /\ pc = "loop"
    /\ IF try <= totalTries
       THEN /\ retryCodes' = RetryCodesFor(try, totalTries, opts)
            /\ handed' = Append(handed, RetryCodesFor(try, totalTries, opts))
            /\ tries' = tries + 1
            /\ IF DoPrecheck(client, req) # NoErr
               THEN FailTry(DoPrecheck(client, req))
               ELSE /\ pc' = IF NeedsWait(opts) THEN "wait" ELSE "send"
                    /\ UNCHANGED <<shouldRetry, doErr, err>>
       ELSE /\ pc' = "done"
            /\ err' = NoErr
            /\ UNCHANGED <<retryCodes, handed, tries, shouldRetry, doErr>>
    /\ UNCHANGED <<client, built, shape, req, reqBody, given, ctx, ctxAtCall, dest, destVal,
                   validateDest, optsArg, opts, totalTries, try, resp, body,
                   sends, waitCalls, waits, hist, idem, conc>>

\* rateLimiter.Wait(reqCtx): fails when the context is done, or when the
\* limiter cannot grant a token within the context's deadline or its burst.
Wait ==
    /\ pc = "wait"
    /\ waitCalls' = waitCalls + 1
    /\ \/ /\ ctx = "cancelled"
          /\ FailTry(RateLimitWaitFailed([kind |-> "context canceled"]))
          /\ UNCHANGED waits
       \/ /\ ctx = "live"
          /\ FailTry(RateLimitWaitFailed([kind |-> "would exceed context deadline"]))
          /\ UNCHANGED waits
       \/ /\ ctx = "live"
          /\ waits' = waits + 1
          /\ pc' = "send"
          /\ UNCHANGED <<shouldRetry, doErr, err>>
    /\ UNCHANGED <<client, built, shape, req, reqBody, given, ctx, ctxAtCall, dest, destVal,
                   validateDest, optsArg, opts, totalTries, try, retryCodes,
                   resp, body, tries, sends, hist, handed, idem, conc>>

\* Variant of HandedRequest in which the body is rewound for the send.
HandedRequest_Rewound(r, b) ==
    [req |-> r, body |-> IF b = "consumed" THEN "unread" ELSE b]
\* The request exec hands to do and do hands to httpClient.Do: the caller's
\* *http.Request as it is, its body in the state the earlier sends left it.
HandedRequest(r, b) == [req |-> r, body |-> b]

\* httpClient.Do(req) takes the request; the transport reads the body of a
\* request that has one, in part or in full.
TransportTakes ==
    /\ given' = Append(given, HandedRequest(req, reqBody))
    /\ reqBody' \in (IF reqBody = "unread" THEN {"unread", "consumed"}
                     ELSE {reqBody})

\* httpClient.Do(req) answered by a response.
Respond(st, b, ok) ==
    /\ resp' = [status |-> st, body |-> b, readOK |-> ok]
    /\ hist' = Append(hist, st)
    /\ pc' = "read"
    /\ UNCHANGED <<shouldRetry, doErr, err>>

\* httpClient.Do(req): a transport failure, or a response with a status and
\* a body stream that reads in full or fails.
Send ==
    /\ pc = "send"
    /\ TransportTakes
    /\ sends' = sends + 1
    /\ \/ /\ FailTry(TransportError)
          /\ UNCHANGED <<resp, hist>>
       \/ \E st \in Status, b \in Bodies, ok \in BOOLEAN : Respond(st, b, ok)
    /\ UNCHANGED <<client, built, shape, req, ctx, ctxAtCall, dest, destVal,
                   validateDest, optsArg, opts, totalTries, try, retryCodes,
                   body, tries, waitCalls, waits, handed, idem, conc>>

\* Variant of ReadAllErr that goes on with what was read before the failure.
ReadAllErr_Ignored(r) == NoErr
\* The error of io.ReadAll(resp.Body), or NoErr.
ReadAllErr(r) == IF r.readOK THEN NoErr ELSE BodyReadError

\* io.ReadAll(resp.Body) and the error test that follows it.
ReadBody ==
    /\ pc = "read"
    /\ IF ReadAllErr(resp) = NoErr
       THEN /\ body' = IF resp.readOK THEN resp.body ELSE ""
            /\ pc' = "classify"
            /\ UNCHANGED <<shouldRetry, doErr, err>>
       ELSE /\ FailTry(ReadAllErr(resp))
            /\ UNCHANGED body
    /\ UNCHANGED <<client, built, shape, req, reqBody, given, ctx, ctxAtCall, dest, destVal,
                   validateDest, optsArg, opts, totalTries, try, retryCodes,
                   resp, tries, sends, waitCalls, waits, hist, handed, idem,
                   conc>>

\* do returned (FALSE, nil): exec breaks out of the loop and returns nil.
Succeed ==
    /\ shouldRetry' = FALSE
    /\ doErr' = NoErr
    /\ err' = NoErr
    /\ pc' = "done"

\* The rest of do (retry classification, status check, decode) and exec's
\* handling of its result: next try, break, or error return.
Classify ==
    /\ pc = "classify"
    /\ LET exp == ExpectedOrDefault(opts.ExpectedStatusCodes)
           class == ClassifyStatus(resp.status, exp, retryCodes)
       IN IF class = "retry"
          THEN /\ shouldRetry' = TRUE
               /\ doErr' = NoErr
               /\ try' = Wrap(try + 1)
               /\ pc' = "loop"
               /\ UNCHANGED <<err, destVal>>
          ELSE IF class = "unexpected"
          THEN /\ FailTry(UnexpectedStatus(resp.status, exp, DiagBody(body)))
               /\ UNCHANGED <<try, destVal>>
          ELSE IF ~WantsDecode(dest)
          THEN /\ Succeed
               /\ UNCHANGED <<try, destVal>>
          ELSE IF UnmarshalErr(body) # NoErr
          THEN /\ FailTry(DecodeError(UnmarshalErr(body), DiagBody(body)))
               /\ UNCHANGED <<try, destVal>>
          ELSE /\ destVal' = Unmarshal(body, destVal)
               /\ Succeed
               /\ UNCHANGED try
    /\ UNCHANGED <<client, built, shape, req, reqBody, given, ctx, ctxAtCall, dest,
                   validateDest, optsArg, opts, totalTries, retryCodes, resp,
                   body, tries, sends, waitCalls, waits, hist, handed, idem,
                   conc>>

\* The request context is cancelled by its owner while the call runs.
Cancel ==
    /\ pc \in {"loop", "wait", "send", "read", "classify"}
    /\ req = "req"
    /\ ctx = "live"
    /\ ctx' = "cancelled"
    /\ UNCHANGED <<client, built, pc, shape, req, reqBody, given, ctxAtCall, dest, destVal,
                   validateDest, optsArg, opts, totalTries, try, retryCodes,
                   resp, body, shouldRetry, doErr, err, tries, sends,
                   waitCalls, waits, hist, handed, idem, conc>>

\* Variant of ClearCall in which the executor's last error outlives the call.
ClearCall_KeepsError ==
    /\ retryCodes' = {}
    /\ resp' = NoResp
    /\ body' = ""
    /\ shouldRetry' = FALSE
    /\ UNCHANGED doErr
    /\ tries' = 0
    /\ sends' = 0
    /\ waitCalls' = 0
    /\ waits' = 0
    /\ hist' = <<>>
    /\ handed' = <<>>
    /\ given' = <<>>
\* The counters and results of a call, cleared for the next one.
ClearCall ==
    /\ retryCodes' = {}
    /\ resp' = NoResp
    /\ body' = ""
    /\ shouldRetry' = FALSE
    /\ doErr' = NoErr
    /\ tries' = 0
    /\ sends' = 0
    /\ waitCalls' = 0
    /\ waits' = 0
    /\ hist' = <<>>
    /\ handed' = <<>>
    /\ given' = <<>>

\* The call has returned; nothing of it is kept and the instance is ready for
\* the next call.
Return ==
    /\ pc = "done"
    /\ pc' = "idle"
    /\ shape' = "Do"
    /\ req' = "nil"
    /\ reqBody' = "none"
    /\ ctx' = "live"
    /\ ctxAtCall' = "live"
    /\ dest' = "absent"
    /\ destVal' = ZeroValue
    /\ validateDest' = FALSE
    /\ optsArg' = NilOpts
    /\ opts' = NilOpts
    /\ totalTries' = 0
    /\ try' = 0
    /\ err' = NoErr
    /\ ClearCall
    /\ UNCHANGED <<client, built, idem, conc>>

Next == Exec \/ LoopTest \/ Wait \/ Send \/ ReadBody \/ Classify \/ Cancel \/ Return

Spec == Init /\ [][Next]_vars

\* exec and do are straight-line code between their blocking calls: once a
\* call is made each of its steps is taken, given that every
\* rateLimiter.Wait, httpClient.Do and io.ReadAll it makes returns.
Fairness ==
    /\ WF_vars(LoopTest)
    /\ WF_vars(Wait)
    /\ WF_vars(Send)
    /\ WF_vars(ReadBody)
    /\ WF_vars(Classify)

SpecLive == Spec /\ Fairness

\* ------------------------------------------------ requests with a body
\* The call entry for a request that carries a body (POST, PUT) whose reader
\* has not been read.
ExecReq ==
    /\ pc = "idle"
    /\ \E s \in Shapes, cx \in {"live", "cancelled"},
          d \in DestKinds, o \in {NilOpts} \cup Options :
        /\ CallArgs(s, "req", cx, d, o)
        /\ ExecWith(s, "req", cx, d, o)
        /\ reqBody' = "unread"
    /\ UNCHANGED <<client, built, given, destVal, retryCodes, resp, body,
                   shouldRetry, doErr, tries, sends, waitCalls, waits, hist,
                   handed, idem, conc>>

NextReq ==
    ExecReq \/ LoopTest \/ Wait \/ Send \/ ReadBody \/ Classify \/ Cancel \/ Return

SpecReq == Init /\ [][NextReq]_vars

\* ------------------------------------------- a series of identical calls
\* A caller repeats one call with identical inputs (a request without a
\* body) against a server that always answers 200 with the same body.  The options value handed to a
\* later call is the one the earlier call was given (as exec left it) or a
\* fresh value with the original contents.

InitIdem ==
    /\ InitInstance /\ InitCall /\ InitConcOff
    /\ server \in Bodies
    /\ prev = NoPrev
    /\ calls = 0

\* The first call of the series.
FirstCall ==
    /\ pc = "idle"
    /\ calls = 0
    /\ \E s \in Shapes, r \in {"nil", "req"}, cx \in {"live", "cancelled"},
          d \in DestKinds, o \in {NilOpts} \cup Options :
        /\ CallArgs(s, r, cx, d, o)
        /\ ExecWith(s, r, cx, d, o)
    /\ calls' = 1
    /\ UNCHANGED <<client, built, reqBody, given, destVal, retryCodes, resp, body,
                   shouldRetry, doErr, tries, sends, waitCalls, waits, hist,
                   handed, server, prev, conc>>

\* The options value the series started with.
OrigOpts == IF prev = NoPrev THEN optsArg ELSE prev.orig

\* The call has returned and the caller makes it again with the same
\* request, destination and options.
Recall ==
    /\ pc = "done"
    /\ calls < MaxCalls
    /\ prev' = [err |-> err, doErr |-> doErr, sends |-> sends,
                destVal |-> destVal, orig |-> OrigOpts]
    /\ calls' = calls + 1
    /\ \E o \in {IF optsArg = NilOpts THEN NilOpts ELSE opts, OrigOpts} :
          ExecWith(shape, req, ctxAtCall, dest, o)
    /\ ClearCall
    /\ UNCHANGED <<client, built, reqBody, destVal, server, conc>>

\* httpClient.Do(req) against the deterministic server.
SendIdem ==
    /\ pc = "send"
    /\ TransportTakes
    /\ sends' = sends + 1
    /\ Respond(StatusOK, server, TRUE)
    /\ UNCHANGED <<client, built, shape, req, ctx, ctxAtCall, dest, destVal,
                   validateDest, optsArg, opts, totalTries, try, retryCodes,
                   body, tries, waitCalls, waits, handed, idem, conc>>

NextIdem ==
    FirstCall \/ Recall \/ LoopTest \/ Wait \/ SendIdem \/ ReadBody \/ Classify

SpecIdem == InitIdem /\ [][NextIdem]_vars

\* ------------------------------------------------------ concurrent calls
\* The goroutines of G call exec on the same instance with the same non-nil
\* *Options.  Each step is one statement of exec that reads or writes the
\* shared value; exec uses no lock or atomic, so the steps interleave freely.

InitConc ==
    /\ InitInstance /\ InitCall /\ InitIdemOff
    /\ shared \in Options
    /\ gpc = [g \in G |-> "chkRetry"]
    /\ gTotalTries = [g \in G |-> 0]
    /\ gTry = [g \in G |-> 0]

\* The rest of the state is not touched by the concurrent calls.
ConcFrame ==
    UNCHANGED <<client, built, pc, shape, req, reqBody, given, ctx, ctxAtCall, dest, destVal,
                validateDest, optsArg, opts, totalTries, try, retryCodes,
                resp, body, shouldRetry, doErr, err, tries, sends, waitCalls,
                waits, hist, handed, idem>>

\* if opts.Retry == nil
GChkRetry(g) ==
    /\ gpc[g] = "chkRetry"
    /\ gpc' = [gpc EXCEPT ![g] = IF shared.Retry = NilRetry
                                 THEN "setRetry" ELSE "chkNeg"]
    /\ UNCHANGED <<shared, gTotalTries, gTry>>
    /\ ConcFrame

\* opts.Retry = new(RetryConfig)
GSetRetry(g) ==
    /\ gpc[g] = "setRetry"
    /\ shared' = [shared EXCEPT !.Retry = NewRetryConfig]
    /\ gpc' = [gpc EXCEPT ![g] = "chkNeg"]
    /\ UNCHANGED <<gTotalTries, gTry>>
    /\ ConcFrame

\* if opts.Retry.Attempts < 0
GChkNeg(g) ==
    /\ gpc[g] = "chkNeg"
    /\ gpc' = [gpc EXCEPT ![g] = IF shared.Retry.Attempts < 0
                                 THEN "clamp" ELSE "total"]
    /\ UNCHANGED <<shared, gTotalTries, gTry>>
    /\ ConcFrame

\* opts.Retry.Attempts = 0
GClamp(g) ==
    /\ gpc[g] = "clamp"
    /\ shared' = [shared EXCEPT !.Retry.Attempts = 0]
    /\ gpc' = [gpc EXCEPT ![g] = "total"]
    /\ UNCHANGED <<gTotalTries, gTry>>
    /\ ConcFrame

\* totalTries := 1 + opts.Retry.Attempts; try := 1
GTotal(g) ==
    /\ gpc[g] = "total"
    /\ gTotalTries' = [gTotalTries EXCEPT ![g] = TotalTries(shared)]
    /\ gTry' = [gTry EXCEPT ![g] = 1]
    /\ gpc' = [gpc EXCEPT ![g] = "loop"]
    /\ UNCHANGED shared
    /\ ConcFrame

\* The loop test and the reads of opts that build the arguments of do.
GLoop(g) ==
    /\ gpc[g] = "loop"
    /\ gpc' = [gpc EXCEPT ![g] = IF gTry[g] <= gTotalTries[g]
                                 THEN "try" ELSE "done"]
    /\ UNCHANGED <<shared, gTotalTries, gTry>>
    /\ ConcFrame

\* do: it reports a retry (possible before the last try only), a success or
\* an error.
GTry(g) ==
    /\ gpc[g] = "try"
    /\ \/ /\ gTry[g] < gTotalTries[g]
          /\ gTry' = [gTry EXCEPT ![g] = Wrap(@ + 1)]
          /\ gpc' = [gpc EXCEPT ![g] = "loop"]
       \/ /\ gpc' = [gpc EXCEPT ![g] = "done"]
          /\ UNCHANGED gTry
       \/ /\ gpc' = [gpc EXCEPT ![g] = "wrap"]
          /\ UNCHANGED gTry
    /\ UNCHANGED <<shared, gTotalTries>>
    /\ ConcFrame

\* if opts.Retry.Attempts > 0 (the error return)
GWrap(g) ==
    /\ gpc[g] = "wrap"
    /\ gpc' = [gpc EXCEPT ![g] = "done"]
    /\ UNCHANGED <<shared, gTotalTries, gTry>>
    /\ ConcFrame

\* The memory of the shared Options / RetryConfig that the next statement of
\* goroutine g reads or writes.
Rd(l) == [loc |-> l, write |-> FALSE]
Wr(l) == [loc |-> l, write |-> TRUE]
Access(g) ==
    CASE gpc[g] = "chkRetry" -> {Rd("opts.Retry")}
      [] gpc[g] = "setRetry" -> {Wr("opts.Retry")}
      [] gpc[g] = "chkNeg"   -> {Rd("opts.Retry"), Rd("Retry.Attempts")}
      [] gpc[g] = "clamp"    -> {Rd("opts.Retry"), Wr("Retry.Attempts")}
      [] gpc[g] = "total"    -> {Rd("opts.Retry"), Rd("Retry.Attempts")}
      [] gpc[g] = "loop"     ->
            IF gTry[g] <= gTotalTries[g]
            THEN {Rd("opts.Retry"), Rd("Retry.RetryStatusCodes"),
                  Rd("opts.RateLimiter"), Rd("opts.ExpectedStatusCodes")}
            ELSE {}
      [] gpc[g] = "wrap"     -> {Rd("opts.Retry"), Rd("Retry.Attempts")}
      [] OTHER               -> {}

NextConc ==
    \E g \in G :
        \/ GChkRetry(g) \/ GSetRetry(g) \/ GChkNeg(g) \/ GClamp(g)
        \/ GTotal(g) \/ GLoop(g) \/ GTry(g) \/ GWrap(g)

SpecConc == InitConc /\ [][NextConc]_vars

\* ============================================================ properties
\* What the caller configured, read from the options value it passed.
ConfAttempts ==
    IF optsArg = NilOpts THEN 0
    ELSE IF optsArg.Retry = NilRetry THEN 0 ELSE optsArg.Retry.Attempts
ConfRetrySet ==
    IF optsArg = NilOpts THEN {}
    ELSE IF optsArg.Retry = NilRetry THEN {} ELSE optsArg.Retry.RetryStatusCodes
ConfExpected == IF optsArg = NilOpts THEN {} ELSE optsArg.ExpectedStatusCodes
\* The expected set in force: {200} when none is configured.
ExpectedInForce == IF ConfExpected = {} THEN {200} ELSE ConfExpected
\* Attempts-after-first with negatives read as 0.
ClampedAttempts == IF ConfAttempts < 0 THEN 0 ELSE ConfAttempts

InCall == pc # "idle"
Done == pc = "done"
\* Failures of the surroundings of a try: the limiter wait, the transport,
\* the body stream.
EnvFailures == {"RateLimitWaitFailed", "TransportError", "BodyReadError"}
\* The last try obtained a response and read its body in full.
LastResponseRead ==
    /\ Len(hist) >= 1
    /\ Len(hist) = sends
    /\ resp # NoResp
    /\ resp.readOK
    /\ doErr.kind \notin EnvFailures
\* The body of the last response decodes into the destination.
BodyDecodes == resp.body = "{\"a\":1}"
\* The error do returned, whether exec wrapped it or not.
Cause == IF err.kind = "RetriesExhausted" THEN err.cause ELSE err

\* ---------------------------------------------------------------- C1
\* C1: in a finished call with attempts = N > 0 in which nothing but the
\* status classification decided the tries and every response had a status
\* in the retry set and outside the expected set, exactly 1+N requests were
\* sent and the result is RetriesExhausted wrapping an UnexpectedStatus that
\* carries the diagnostic body of the last response.
C1_RetriesExhaustedAfterAllRetryStatuses ==
    ( /\ Done
      /\ ConfAttempts > 0
      /\ err # InvalidDestination
      /\ doErr.kind \notin EnvFailures \cup {"InvalidState"}
      /\ \A i \in 1..Len(hist) :
            hist[i] \in ConfRetrySet /\ hist[i] \notin ExpectedInForce )
    => /\ sends = 1 + ConfAttempts
       /\ Len(hist) = 1 + ConfAttempts
       /\ err = RetriesExhausted(ConfAttempts,
                    UnexpectedStatus(hist[Len(hist)], ExpectedInForce,
                                     DiagBody(resp.body)))

\* ---------------------------------------------------------------- C2
\* C2: with attempts = N > 0, (a) a call whose responses so far (at least
\* one, at most N) all had a status in the retry set does not end unless
\* the limiter, the transport or the body stream failed, and (b) once the
\* response of try N+1 has a status in the expected set, was read and (when
\* a destination is requested) decodes, the call is finished with exactly
\* N+1 requests sent and no error.
C2_RetryThenSuccess ==
    LET N == ConfAttempts IN
    /\ ( /\ N > 0 /\ Done
         /\ Len(hist) >= 1 /\ Len(hist) <= N
         /\ \A i \in 1..Len(hist) : hist[i] \in ConfRetrySet )
       => doErr.kind \in EnvFailures
    /\ ( /\ N > 0
         /\ Len(hist) = N + 1
         /\ \A i \in 1..N : hist[i] \in ConfRetrySet
         /\ hist[N + 1] \in ExpectedInForce
         /\ resp.readOK
         /\ (dest = "absent" \/ BodyDecodes)
         /\ pc \notin {"read", "classify"} )
       => /\ Done
          /\ sends = N + 1
          /\ tries = N + 1
          /\ err = NoErr

\* Witness C2: attempts = 2, responses 503, 503, 200, three requests sent, no
\* error.
C2_Witness ==
    /\ Done /\ ConfAttempts = 2 /\ ConfRetrySet = {503}
    /\ hist = <<503, 503, 200>>
    /\ sends = 3 /\ err = NoErr

\* ---------------------------------------------------------------- C3
\* C3: the retry-code set handed to the executor is the configured set on
\* every try before try totalTries and empty on try totalTries; the executor
\* never reports shouldRetry on the final try; the loop never ends by running
\* out of tries, i.e. with the loop test failing.
C3_FinalTryDecides ==
    /\ \A i \in 1..Len(handed) :
          handed[i] = IF i < totalTries THEN ConfRetrySet ELSE {}
    /\ Len(handed) <= (IF totalTries > 0 THEN totalTries ELSE 0)
    /\ (shouldRetry /\ pc \in {"loop", "done"}) => tries < totalTries
    /\ ~(Done /\ try > totalTries)

\* ---------------------------------------------------------------- C4
\* C4: try k+1 starts only right after try k returned shouldRetry without an
\* error on a response whose status is in the configured retry set, with
\* k < totalTries; and whenever try k ends that way try k+1 is the next
\* thing to start.  A try that ends with an error ends the call: the number
\* of tries started stays k.
C4_NextTryIffRetryStatus ==
    [][ /\ (tries >= 1 /\ tries' = tries + 1)
            => /\ shouldRetry /\ doErr = NoErr
               /\ Len(hist) = tries
               /\ hist[tries] \in ConfRetrySet
               /\ tries < totalTries
        /\ (pc = "classify" /\ pc' # "classify"
              /\ resp.status \in ConfRetrySet /\ tries < totalTries)
            => /\ pc' = "loop" /\ shouldRetry' /\ doErr' = NoErr
               /\ try' = tries + 1 /\ try' <= totalTries
        /\ (pc = "loop" /\ tries >= 1 /\ pc' # "loop")
            => tries' = tries + 1
        /\ (InCall /\ doErr' # NoErr) => pc' = "done"
        /\ (Done /\ pc' # "idle") => (pc' = "done" /\ tries' = tries)
      ]_vars

\* Witness C4: a transport failure on try 2 of 3 ended the call with two
\* tries started.
C4_Witness ==
    /\ Done /\ totalTries = 3 /\ tries = 2
    /\ doErr = TransportError /\ hist = <<503>>

\* ---------------------------------------------------------------- C5
\* C5: the number of requests sent so far in a call never exceeds
\* 1 + max(0, attempts).
C5_SendsBounded == sends <= 1 + ClampedAttempts

\* Witness C5: the bound is met with attempts = 2.
C5_Witness == ConfAttempts = 2 /\ sends = 3

\* ---------------------------------------------------------------- C6
\* C6: when the executor returned an error on a try (the first included),
\* the call returns RetriesExhausted with the configured attempts count and
\* that error as its cause if the clamped attempts-after-first is > 0, and
\* that same error unwrapped if it is 0; RetriesExhausted is never the
\* result when attempts-after-first is 0.
C6_ErrorWrapping ==
    /\ (Done /\ doErr # NoErr)
        => err = IF ClampedAttempts > 0
                 THEN [kind |-> "RetriesExhausted",
                       attempts |-> ConfAttempts, cause |-> doErr]
                 ELSE doErr
    /\ (InCall /\ doErr # NoErr) => Done
    /\ doErr.kind \in {"nil", "InvalidState", "RateLimitWaitFailed",
                       "TransportError", "BodyReadError", "UnexpectedStatus",
                       "DecodeError"}
    /\ (err.kind = "RetriesExhausted") => ClampedAttempts > 0

\* Witness C6: an InvalidState error of the first try is wrapped when
\* attempts = 2.
C6_Witness ==
    /\ Done /\ tries = 1 /\ ConfAttempts = 2
    /\ doErr.kind = "InvalidState"
    /\ err.kind = "RetriesExhausted" /\ err.cause = doErr

\* The outcome of a call that makes a single try with retry classification
\* off: one try started once dest validation passed, at most one request
\* sent, never a retry report, and a fully read response ends as success
\* (decode permitting) when its status is in the expected set in force and
\* as UnexpectedStatus otherwise.
SingleTryOutcome ==
    /\ tries <= 1 /\ sends <= 1 /\ ~shouldRetry
    /\ (Done /\ err # InvalidDestination) => tries = 1
    /\ (Done /\ LastResponseRead)
        => IF hist[1] \in ExpectedInForce
           THEN IF dest = "absent" \/ BodyDecodes
                THEN err = NoErr
                ELSE Cause.kind = "DecodeError"
           ELSE Cause.kind = "UnexpectedStatus" /\ Cause.status = hist[1]

\* C7: a call whose attempts-after-first is 0 (explicitly, or with the
\* options or the retry config absent) makes exactly one try whatever the
\* status and the retry set: a status in the retry set is not classified as
\* retry, it passes if it is in the expected set and is an UnexpectedStatus
\* error otherwise.
C7_ZeroAttemptsOneTry == (InCall /\ ConfAttempts = 0) => SingleTryOutcome

\* Witness C7: attempts = 0, status 503 is in the retry set and in the
\* expected set: one request, success.
C7_Witness ==
    /\ Done /\ optsArg # NilOpts /\ optsArg.Retry # NilRetry
    /\ ConfAttempts = 0 /\ ConfRetrySet = {503} /\ ConfExpected = {503}
    /\ hist = <<503>> /\ sends = 1 /\ err = NoErr

\* ---------------------------------------------------------------- C8
\* C8: a call with a negative attempts-after-first behaves as with 0:
\* exactly one try, and an error is returned bare, never as
\* RetriesExhausted.
C8_NegativeAttemptsAsZero ==
    (InCall /\ ConfAttempts < 0)
    => /\ SingleTryOutcome
       /\ err.kind # "RetriesExhausted"
       /\ (Done /\ doErr # NoErr) => err = doErr

\* Witness C8: attempts = -1, a 503 that is in the retry set: one request,
\* a bare UnexpectedStatus.
C8_Witness ==
    /\ Done /\ ConfAttempts = -1 /\ ConfRetrySet = {503}
    /\ hist = <<503>> /\ sends = 1 /\ tries = 1
    /\ err.kind = "UnexpectedStatus"

\* ---------------------------------------------------------------- C9
\* C9: a response that was read and not retry-classified passes the status
\* check iff its status is 200 when the expected set is empty or absent, and
\* iff its status is a member of the expected set when that set is
\* non-empty; a response that passes yields success (when a destination is
\* requested, if its body decodes), any other fails with UnexpectedStatus
\* carrying the status and the expected set.
C9_ExpectedStatusCheck ==
    (Done /\ LastResponseRead)
    => LET st == hist[Len(hist)]
           passes == Cause.kind # "UnexpectedStatus"
       IN /\ (ConfExpected = {}) => (passes <=> st = 200)
          /\ (ConfExpected # {}) => (passes <=> st \in ConfExpected)
          /\ passes => /\ Cause.kind \in {"nil", "DecodeError"}
                       /\ (err = NoErr) <=> (dest = "absent" \/ BodyDecodes)
          /\ (~passes) => /\ Cause.status = st
                          /\ Cause.expected =
                               (IF ConfExpected = {} THEN {200} ELSE ConfExpected)

\* Witness C9: 200 is refused when the expected set is {201, 503}.
C9_Witness ==
    /\ Done /\ LastResponseRead
    /\ ConfExpected = {201, 503} /\ hist = <<200>>
    /\ err.kind = "UnexpectedStatus" /\ err.status = 200

\* ---------------------------------------------------------------- C10
\* C10: a decoding call whose destination is absent, not a pointer or a nil
\* pointer fails with InvalidDestination before any try: no limiter wait, no
\* request sent.
C10_InvalidDestinationBeforeAnyTry ==
    (InCall /\ validateDest /\ dest \in {"absent", "nonptr", "nilptr"})
    => /\ Done
       /\ err = [kind |-> "InvalidDestination"]
       /\ tries = 0 /\ waits = 0 /\ sends = 0 /\ hist = <<>>

\* Witness C10: a nil pointer destination with a rate limiter and a request.
C10_Witness ==
    /\ Done /\ validateDest /\ dest = "nilptr"
    /\ optsArg # NilOpts /\ optsArg.RateLimiter /\ req = "req"
    /\ err.kind = "InvalidDestination" /\ sends = 0 /\ waits = 0

\* A rate limiter was supplied with the call.
LimiterSupplied == optsArg # NilOpts /\ optsArg.RateLimiter
\* A step of the call itself (not a cancellation by the context's owner).
CallStep == pc' # pc

\* ---------------------------------------------------------------- C11
\* C11: a limiter wait made with a cancelled context fails the try with
\* RateLimitWaitFailed wrapping the cancellation cause, the transport is not
\* invoked on that try and no later try starts; when the context was
\* already cancelled at the call and a limiter is supplied, no request is
\* ever sent.
C11_WaitFailsOnCancelledContext ==
    [][ /\ (pc = "wait" /\ ctx = "cancelled" /\ CallStep)
            => /\ doErr' = [kind |-> "RateLimitWaitFailed",
                            cause |-> [kind |-> "context canceled"]]
               /\ pc' = "done"
               /\ sends' = sends /\ tries' = tries /\ waits' = waits
        /\ (pc = "done" /\ doErr.kind = "RateLimitWaitFailed" /\ pc' # "idle")
            => (tries' = tries /\ sends' = sends)
        /\ (pc' # "idle" /\ LimiterSupplied' /\ ctxAtCall' = "cancelled")
            => sends' = 0
      ]_vars

\* Witness C11: context cancelled before a call with a limiter and two
\* retries left: the first wait fails, nothing is sent.
C11_Witness ==
    /\ Done /\ LimiterSupplied /\ ctxAtCall = "cancelled"
    /\ totalTries = 3 /\ tries = 1 /\ sends = 0
    /\ doErr.kind = "RateLimitWaitFailed"
    /\ err.kind = "RetriesExhausted" /\ err.cause = doErr

\* ---------------------------------------------------------------- C12
\* Waiting discipline common to the claim and its amendment: with a limiter
\* every request sent follows a successful wait of the same try, without a
\* limiter no wait is made.
WaitBeforeEachSend ==
    /\ LimiterSupplied
        => /\ waits >= sends
           /\ waits <= waitCalls
           /\ (pc \in {"read", "classify"}) => (waits = tries /\ sends = tries)
           /\ (pc = "send") => (waits = tries /\ sends = tries - 1)
    /\ (InCall /\ ~LimiterSupplied) => waitCalls = 0

\* C12 as claimed: with a limiter the wait is made once before each try, so
\* that once a try is past its wait point the number of waits equals the
\* number of tries started.
C12_WaitOncePerTry ==
    /\ WaitBeforeEachSend
    /\ (LimiterSupplied /\ pc \in {"send", "read", "classify", "loop", "done"})
        => waitCalls = tries

\* C12 amended: the number of waits equals the number of tries started that
\* passed the executor's transport and request checks; a try that fails with
\* InvalidState makes no wait.
C12_WaitOncePerCheckedTry ==
    /\ WaitBeforeEachSend
    /\ (LimiterSupplied /\ pc \in {"send", "read", "classify", "loop", "done"})
        => waitCalls = tries - (IF doErr.kind = "InvalidState" THEN 1 ELSE 0)

\* Witness C12: three tries with a limiter, three waits, three requests.
C12_Witness ==
    /\ Done /\ LimiterSupplied
    /\ tries = 3 /\ waitCalls = 3 /\ waits = 3 /\ sends = 3

\* ---------------------------------------------------------------- C13
\* C13: after the call has returned, the caller's options value and its
\* retry config have the contents they had before the call.
C13_OptionsUnchanged == (Done /\ optsArg # NilOpts) => opts = optsArg

\* ---------------------------------------------------------------- C15
\* The JSON values of the body set and their indented re-serialisation, as
\* the codec's documentation gives them.
ParsesAsJSON(b) == b = "{\"a\":1}" \/ b = "[1]"
Indented(b) == IF b = "[1]" THEN "[\n\t1\n]" ELSE "{\n\t\"a\": 1\n}"
DiagnosticOf(b) == IF ParsesAsJSON(b) THEN Indented(b) ELSE b

\* C15: when a destination is requested and a response that is not
\* retry-classified has an expected status and a body that does not decode
\* into the destination, the try fails with DecodeError carrying the parse
\* error and the diagnostic body, and the call ends there whatever tries
\* remain.
C15_DecodeErrorNotRetried ==
    [][ ( /\ pc = "classify" /\ CallStep
          /\ dest = "ptr"
          /\ (tries = totalTries \/ resp.status \notin ConfRetrySet)
          /\ resp.status \in ExpectedInForce
          /\ body # "{\"a\":1}" )
        => /\ pc' = "done"
           /\ doErr'.kind = "DecodeError"
           /\ doErr'.cause.kind \in {"SyntaxError", "UnmarshalTypeError"}
           /\ doErr'.body = DiagnosticOf(body)
           /\ err' = (IF ClampedAttempts > 0
                      THEN [kind |-> "RetriesExhausted",
                            attempts |-> ConfAttempts, cause |-> doErr']
                      ELSE doErr')
           /\ tries' = tries /\ try' = try
      ]_vars

\* Witness C15: a JSON array for a struct destination on try 1 of 3.
C15_Witness ==
    /\ Done /\ dest = "ptr" /\ totalTries = 3 /\ tries = 1
    /\ hist = <<200>> /\ resp.body = "[1]"
    /\ doErr.kind = "DecodeError"

\* ---------------------------------------------------------------- C16
\* C16: the body carried by UnexpectedStatus and DecodeError is the indented
\* re-serialisation of the response body when it parses as JSON and the raw
\* body text otherwise.
C16_DiagnosticBody ==
    (InCall /\ doErr.kind \in {"UnexpectedStatus", "DecodeError"})
    => /\ doErr.body = DiagnosticOf(resp.body)
       /\ ParsesAsJSON(resp.body) => doErr.body # resp.body
       /\ (~ParsesAsJSON(resp.body)) => doErr.body = resp.body

\* Witness C16: a JSON error body is carried indented.
C16_Witness ==
    /\ Done /\ doErr.kind = "UnexpectedStatus"
    /\ resp.body = "{\"a\":1}" /\ doErr.body = "{\n\t\"a\": 1\n}"

\* ---------------------------------------------------------------- C17
\* C17: with the transport or the request absent, the executor fails on its
\* first invocation with InvalidState ("nil http client", else "nil
\* request") before the limiter wait and before any send.
C17_InvalidStateBeforeWait ==
    (tries >= 1 /\ (client = "nil" \/ req = "nil"))
    => /\ Done /\ tries = 1
       /\ doErr = [kind |-> "InvalidState",
                   msg |-> IF client = "nil" THEN "nil http client"
                           ELSE "nil request"]
       /\ waitCalls = 0 /\ waits = 0 /\ sends = 0

\* Witness C17: a nil request with a limiter supplied.
C17_Witness ==
    /\ Done /\ client # "nil" /\ req = "nil" /\ LimiterSupplied
    /\ doErr.kind = "InvalidState" /\ doErr.msg = "nil request"
    /\ waitCalls = 0 /\ sends = 0

\* ---------------------------------------------------------------- C19
\* C19: an instance built by New or NewWithClient holds a non-nil client:
\* the default client for New() and NewWithClient(nil), c for
\* NewWithClient(c); Client() returns it; the executor's "nil http client"
\* error does not occur for such an instance.
C19_PublicConstructorsHoldClient ==
    LET held == IF built.by = "NewWithClient" /\ built.arg # "nil"
                THEN built.arg ELSE "default"
    IN (built.by \in {"New", "NewWithClient"})
       => /\ client = held
          /\ client # "nil"
          /\ Client(client) = held
          /\ ~(doErr.kind = "InvalidState" /\ doErr.msg = "nil http client")

\* Witness C19: an instance from NewWithClient(nil) has sent a request.
C19_Witness ==
    /\ built = [by |-> "NewWithClient", arg |-> "nil"]
    /\ client = "default" /\ Done /\ sends = 1 /\ err = NoErr

\* ---------------------------------------------------------------- C20
\* C20: a response whose status is in both the retry set and the expected
\* set is classified as retry on every try before the last (another try
\* follows, nothing is returned or decoded) and passes the status check on
\* the last try only.
C20_RetryBeforeExpected ==
    [][ ( /\ pc = "classify" /\ CallStep
          /\ resp.status \in ConfRetrySet
          /\ resp.status \in ExpectedInForce )
        => IF tries < totalTries
           THEN /\ pc' = "loop" /\ shouldRetry' /\ doErr' = NoErr
                /\ err' = NoErr /\ destVal' = destVal
                /\ try' = try + 1 /\ try' <= totalTries
           ELSE /\ pc' = "done" /\ ~shouldRetry'
                /\ doErr'.kind \in {"nil", "DecodeError"}
                /\ (dest = "absent" \/ body = "{\"a\":1}") => err' = NoErr
      ]_vars

\* Witness C20: 503 is both retryable and expected, attempts = 1: the first
\* 503 is retried, the second is accepted.
C20_Witness ==
    /\ Done /\ ConfAttempts = 1
    /\ ConfRetrySet = {503} /\ ConfExpected = {503}
    /\ hist = <<503, 503>> /\ sends = 2 /\ err = NoErr

\* ---------------------------------------------------------------- C21
\* C21: a response with a status in the configured retry set that reaches the
\* classification produces no error at all on a try before try totalTries
\* (the executor reports a retry and nothing is returned); an
\* UnexpectedStatus error for a status of the retry set is produced on try
\* totalTries only, i.e. after 1 + attempts requests were sent.
C21_RetryStatusErrsOnLastTryOnly ==
    [][ /\ ( /\ pc = "classify" /\ CallStep
             /\ resp.status \in ConfRetrySet
             /\ tries < totalTries )
            => /\ doErr' = NoErr /\ err' = NoErr
               /\ pc' = "loop" /\ sends' = sends
        /\ ( /\ pc' # "idle"
             /\ doErr'.kind = "UnexpectedStatus"
             /\ doErr'.status \in ConfRetrySet' )
            => /\ tries' = totalTries'
               /\ tries' = 1 + ClampedAttempts'
               /\ sends' = 1 + ClampedAttempts'
      ]_vars

\* Witness C21: attempts = 2, retry set {503}, expected set {200}: the
\* third 503 is the UnexpectedStatus error, after three requests.
C21_Witness ==
    /\ Done /\ ConfAttempts = 2 /\ ConfRetrySet = {503} /\ ConfExpected = {200}
    /\ hist = <<503, 503, 503>> /\ sends = 3
    /\ doErr.kind = "UnexpectedStatus" /\ doErr.status = 503
    /\ err.kind = "RetriesExhausted"

\* ---------------------------------------------------------------- C22
\* C22: the status of a response is classified only after its body was read
\* in full; a body read failure on any try, a try before the last whose
\* response has a status of the retry set included, ends the call with
\* BodyReadError (wrapped as RetriesExhausted when attempts > 0): no retry
\* is reported and no further try starts.
C22_BodyReadErrorEndsCall ==
    [][ /\ ( /\ pc = "read" /\ CallStep /\ ~resp.readOK )
            => /\ pc' = "done"
               /\ ~shouldRetry'
               /\ doErr' = [kind |-> "BodyReadError"]
               /\ err' = (IF ClampedAttempts > 0
                          THEN [kind |-> "RetriesExhausted",
                                attempts |-> ConfAttempts, cause |-> doErr']
                          ELSE doErr')
               /\ tries' = tries /\ sends' = sends /\ destVal' = destVal
        /\ (pc' = "classify") => (resp'.readOK /\ body' = resp'.body)
        /\ (pc = "done" /\ doErr.kind = "BodyReadError" /\ pc' # "idle")
            => (tries' = tries /\ sends' = sends)
      ]_vars

\* Witness C22: the body of a 503 of the retry set fails to read on try 1 of
\* 3: the call ends there with a wrapped BodyReadError.
C22_Witness ==
    /\ Done /\ ConfAttempts = 2 /\ ConfRetrySet = {503}
    /\ hist = <<503>> /\ tries = 1 /\ sends = 1
    /\ ~resp.readOK /\ doErr.kind = "BodyReadError"
    /\ err.kind = "RetriesExhausted" /\ err.cause = doErr

\* ---------------------------------------------------------------- C23
\* C23: when a call has returned without an error, at least one request was
\* sent, the last response has a status in the expected set in force and
\* was not classified as retry on its try, every earlier response had a
\* status in the configured retry set, and, when a destination is
\* requested, the body of the last response was decoded into it.
C23_SuccessMeansExpectedResponse ==
    (Done /\ err = NoErr)
    => /\ sends >= 1
       /\ Len(hist) = sends
       /\ hist[Len(hist)] \in ExpectedInForce
       /\ ~shouldRetry
       /\ (Len(hist) < totalTries) => hist[Len(hist)] \notin ConfRetrySet
       /\ \A i \in 1..(Len(hist) - 1) : hist[i] \in ConfRetrySet
       /\ (dest # "absent") => (BodyDecodes /\ destVal = [a |-> 1])

\* ---------------------------------------------------------------- C24
\* C24: for every attempts-after-first of the integer type, the largest
\* included, totalTries is at least 1 once computed, so a call that passed
\* dest validation starts at least one try and never returns success with
\* zero requests sent.
C24_TotalTriesAtLeastOne ==
    /\ (InCall /\ err # InvalidDestination) => totalTries >= 1
    /\ (Done /\ err # InvalidDestination) => tries >= 1
    /\ ~(Done /\ err = NoErr /\ sends = 0)

\* ---------------------------------------------------------------- C25
\* C25: the destination is written by one step of a call at most, the decode
\* of the try that ends the call: a change of its value happens only on a
\* try whose response was read, is not retry-classified and has an expected
\* status, and that try ends the call; every try that ends as
\* retry-classified or with RateLimitWaitFailed, TransportError,
\* BodyReadError, InvalidState or UnexpectedStatus, and a call that fails
\* with InvalidDestination, leaves it as it was.
C25_DestWrittenByLastTryOnly ==
    [][ (pc' # "idle")
        => /\ (destVal' # destVal)
               => /\ pc = "classify" /\ pc' = "done"
                  /\ dest = "ptr"
                  /\ resp.readOK
                  /\ resp.status \in ExpectedInForce
                  /\ (tries = totalTries \/ resp.status \notin ConfRetrySet)
                  /\ ~shouldRetry'
                  /\ doErr'.kind \in {"nil", "DecodeError"}
                  /\ destVal = [a |-> 0]
           /\ ( \/ (pc = "classify" /\ pc' = "loop")
                \/ doErr'.kind \in {"RateLimitWaitFailed", "TransportError",
                                    "BodyReadError", "InvalidState",
                                    "UnexpectedStatus"}
                \/ err'.kind = "InvalidDestination" )
               => destVal' = destVal
           /\ (pc = "done") => destVal' = destVal
      ]_vars

\* Witness C25: two retry-classified responses with a decodable body left
\* the destination alone, the third try decoded into it.
C25_Witness ==
    /\ Done /\ dest = "ptr" /\ ConfAttempts = 2
    /\ hist = <<503, 503, 200>> /\ tries = 3
    /\ err = NoErr /\ destVal = [a |-> 1]

\* ---------------------------------------------------------------- C26
\* C26: in a call of a non-decoding shape (no destination requested) a
\* response that was read, is not retry-classified and has an expected
\* status yields success whatever its body, empty and non-JSON bodies
\* included; DecodeError is never the result and nothing is decoded.
C26_NoDecodeWithoutDest ==
    (InCall /\ shape \in {"Do", "DoWithOptions"})
    => /\ dest = "absent"
       /\ doErr.kind # "DecodeError"
       /\ err.kind # "DecodeError"
       /\ (err.kind = "RetriesExhausted") => err.cause.kind # "DecodeError"
       /\ destVal = [a |-> 0]
       /\ (Done /\ LastResponseRead /\ hist[Len(hist)] \in ExpectedInForce)
           => err = NoErr

\* Witness C26: DoWithOptions, an expected 201 with a body that is not JSON:
\* success.
C26_Witness ==
    /\ Done /\ shape = "DoWithOptions" /\ ConfExpected = {201, 503}
    /\ hist = <<201>> /\ resp.body = "oops" /\ resp.readOK
    /\ sends = 1 /\ err = NoErr

\* ---------------------------------------------------------------- C27
\* C27: every call that is made reaches the terminal state, which is Done
\* with no error or Done with an error and stays as it is until the call is
\* over, given that every wait, send and read of the call returns; a later
\* call starts from nothing: try counter at 1 with no try started, no
\* request sent, no pending retry report and no error of an earlier call,
\* and the instance a call leaves behind is the instance it found.
C27_CallTerminatesAndLeavesNothing ==
    /\ InCall ~> Done
    /\ [][ /\ (pc = "done" /\ pc' # "idle")
               => (pc' = "done" /\ err' = err /\ doErr' = doErr)
           /\ (pc = "done" /\ pc' = "idle")
               => (client' = client /\ built' = built)
           /\ (pc = "idle" /\ pc' # "idle")
               => /\ tries' = 0 /\ sends' = 0 /\ waitCalls' = 0
                  /\ hist' = <<>> /\ handed' = <<>>
                  /\ ~shouldRetry' /\ doErr' = NoErr
                  /\ \/ pc' = "loop" /\ try' = 1 /\ err' = NoErr
                     \/ pc' = "done" /\ err' = [kind |-> "InvalidDestination"]
         ]_vars

\* Witness C27: a call that used its three tries and ended with an error
\* has returned.
C27_Witness ==
    /\ Done /\ tries = 3 /\ sends = 3 /\ hist = <<503, 503, 503>>
    /\ err.kind = "RetriesExhausted"

\* ---------------------------------------------------------------- C28
\* C28: during a call the request and its body are changed by no step of
\* the core: the request value is the same from the call to its return,
\* every send hands the transport that request with its body in the state
\* the earlier sends left it (never rebuilt, never rewound), and the state
\* of the body changes only by the transport reading it; the context is
\* not written by the core either.
C28_RequestNotWritten ==
    [][ (pc # "idle" /\ pc' # "idle")
        => /\ req' = req
           /\ (reqBody' # reqBody)
               => (pc = "send" /\ reqBody = "unread" /\ reqBody' = "consumed")
           /\ (sends' = sends + 1)
               => given' = given \o <<[req |-> req, body |-> reqBody]>>
           /\ (sends' = sends) => given' = given
           /\ Len(given') = sends'
           /\ \A i \in 1..Len(given') : given'[i].req = req
           /\ (ctx' # ctx) => (pc' = pc /\ ctx = "live")
      ]_vars

\* Witness C28: three tries of a request with a body: the transport read
\* the body on the first send and was handed the same request, its body
\* consumed, on the second and the third.
C28_Witness ==
    /\ Done /\ sends = 3 /\ hist = <<503, 503, 200>> /\ err = NoErr
    /\ given = <<[req |-> "req", body |-> "unread"],
                 [req |-> "req", body |-> "consumed"],
                 [req |-> "req", body |-> "consumed"]>>

\* ---------------------------------------------------------------- C29
\* C29: a decoding call with an invalid destination returns the bare
\* InvalidDestination error whatever the retry configuration: it is not
\* wrapped as RetriesExhausted when attempts-after-first > 0, and it is the
\* result also when the request (or the client) is absent, in place of
\* InvalidState; RetriesExhausted never carries an InvalidDestination.
C29_InvalidDestinationBare ==
    /\ (InCall /\ validateDest /\ dest # "ptr")
        => /\ err = [kind |-> "InvalidDestination"]
           /\ err.kind \notin {"RetriesExhausted", "InvalidState"}
           /\ doErr = NoErr
    /\ (err.kind = "RetriesExhausted") => err.cause.kind # "InvalidDestination"
    /\ (err.kind = "RetriesExhausted") => err.cause = doErr

\* Witness C29: attempts = 2, a nil request and a non-pointer destination:
\* the bare InvalidDestination.
C29_Witness ==
    /\ Done /\ shape = "DoAndUnwrapWithOptions" /\ dest = "nonptr"
    /\ req = "nil" /\ ConfAttempts = 2
    /\ err = InvalidDestination /\ tries = 0

\* ---------------------------------------------------------------- C30
\* C30: the executor never reports shouldRetry together with an error: every
\* error return carries shouldRetry = false, and shouldRetry = true is
\* reported only by the classification of a response that was sent for on
\* that try and whose body was read in full.
C30_RetryReportWithoutError ==
    [][ (pc' # "idle")
        => /\ ~(shouldRetry' /\ doErr' # NoErr)
           /\ (doErr' # NoErr /\ doErr' # doErr) => ~shouldRetry'
           /\ (shouldRetry' /\ (~shouldRetry \/ (pc = "classify" /\ CallStep)))
               => /\ pc = "classify" /\ pc' = "loop"
                  /\ sends = tries /\ Len(hist) = tries
                  /\ resp.readOK /\ body = resp.body
                  /\ doErr' = NoErr /\ err' = NoErr
      ]_vars

\* Witness C30: a retry report on try 1 (a 503 read in full), then a
\* transport failure on try 2, reported without a retry.
C30_Witness ==
    /\ Done /\ hist = <<503>> /\ sends = 2 /\ tries = 2
    /\ doErr = TransportError /\ ~shouldRetry

\* ---------------------------------------------------------------- C18
\* The limiter had no token to give within the deadline: an outcome of the
\* limiter's own state, not of the inputs of the call.
LimiterRanDry(e) ==
    e.kind = "RateLimitWaitFailed" /\ e.cause.kind = "would exceed context deadline"

\* C18: against a server that always answers 200 with the same body, every
\* call of a series with identical inputs (the options value reused as the
\* previous call left it, or given afresh) returns what the previous call
\* returned, with the same number of requests sent and the same destination
\* value; it is a success when the inputs are valid, 200 is expected and the
\* body decodes.
C18_Idempotent ==
    /\ (Done /\ prev # NoPrev
          /\ ~LimiterRanDry(doErr) /\ ~LimiterRanDry(prev.doErr))
        => /\ err = prev.err
           /\ sends = prev.sends
           /\ destVal = prev.destVal
    /\ (Done /\ client # "nil" /\ req = "req" /\ ctxAtCall = "live"
          /\ (validateDest => dest = "ptr")
          /\ doErr.kind # "RateLimitWaitFailed"
          /\ 200 \in (IF OrigOpts = NilOpts \/ OrigOpts.ExpectedStatusCodes = {}
                      THEN {200} ELSE OrigOpts.ExpectedStatusCodes)
          /\ (dest = "ptr" => server = "{\"a\":1}"))
        => /\ err = NoErr
           /\ (dest = "ptr" /\ sends > 0) => destVal = [a |-> 1]

\* Witness C18: the third call of a series that started with a nil retry
\* config and reuses the normalised options value: one request, the same
\* decoded value.
C18_Witness ==
    /\ Done /\ calls = 3 /\ prev # NoPrev
    /\ prev.orig # NilOpts /\ prev.orig.Retry = NilRetry
    /\ optsArg # NilOpts /\ optsArg.Retry # NilRetry
    /\ dest = "ptr" /\ destVal = [a |-> 1] /\ prev.destVal = [a |-> 1]
    /\ err = NoErr /\ sends = 1 /\ prev.sends = 1

\* ---------------------------------------------------------------- C14
\* Two calls are about to touch the same location of the shared options
\* value or retry config, one of them writing, with nothing ordering them.
DataRace(g, h) ==
    \E a \in Access(g), b \in Access(h) :
        a.loc = b.loc /\ (a.write \/ b.write)

\* C14: concurrent calls that share the options value never race on it: no
\* unsynchronised write by one call to memory another call reads or writes.
C14_NoSharedWrites == \A g, h \in G : (g # h) => ~DataRace(g, h)

TypeOK ==
    /\ pc \in {"idle", "loop", "wait", "send", "read", "classify", "done"}
    /\ try \in MinInt..MaxInt
    /\ totalTries \in MinInt..MaxInt
    /\ sends \in Nat /\ waits \in Nat /\ tries \in Nat
====
